---------------------------- MODULE Spec2Model ----------------------------
(***************************************************************************)
(* Model of generate.py: the feed aggregation pipeline of petrol-lk-news.  *)
(*                                                                         *)
(*   main: ensure_dirs -> load_feeds -> collect_items -> write index.html  *)
(*         -> write news.json                                              *)
(*                                                                         *)
(* Text is a sequence of character codes, so that str.strip and            *)
(* str.replace are computed character by character.  A dictionary key      *)
(* that may be missing is a sequence of length 0 (missing) or 1 (present). *)
(* A date string is a record: what email.utils.parsedate_to_datetime makes *)
(* of it.  Instants are integers.  An item carries the fields the           *)
(* grouping, the order and the dedup read (title, link, category,          *)
(* feed_name, published_sort); its summary, source_host and published_utc  *)
(* are not carried, and a card of the page is the item it renders.         *)
(*                                                                         *)
(* Three specifications:                                                   *)
(*   Spec      the whole run of main over a configuration and feeds        *)
(*   SpecDate  parse_date applied to bounded entries                       *)
(*   SpecHost  source_host applied to bounded links                        *)
(***************************************************************************)
EXTENDS Integers, Sequences, FiniteSets, TLC

VARIABLES
    pc,          \* position of main
    feedsFile,   \* feeds.json on disk: <<>> unreadable/malformed, <<cfg>> a list
    feeds,       \* main's `feeds`
    fi,          \* index of the feed the loop of collect_items is at
    items,       \* collect_items' `items`, in append order
    seen_links,  \* collect_items' `seen_links`
    examined,    \* per feed processed, the entries the inner loop ran on
    pool,        \* main's `items`: what collect_items returned
    indexHtml,   \* public/index.html
    newsJson,    \* public/news.json
    now,         \* the clock read by datetime.now
    failure,     \* why the run raised ("" while it has not)
    dIn, dOut,   \* SpecDate: the entry and clock given to parse_date, its result
    hIn, hOut    \* SpecHost: the link given to source_host, its result

vars == <<pc, feedsFile, feeds, fi, items, seen_links, examined, pool,
          indexHtml, newsJson, now, failure, dIn, dOut, hIn, hOut>>

runVars == <<pc, feedsFile, feeds, fi, items, seen_links, examined, pool,
             indexHtml, newsJson, now, failure>>

-----------------------------------------------------------------------------
(* Bounds of the model *)

\* entries in the short feeds (one or two) of a configuration, in total
MaxEntries == 2
\* full-length feeds in a configuration
MaxBulk == 7
\* the clock when the run starts
StartTime == 3
\* length of the authority given to source_host
MaxHostLen == 6
\* largest local time in a date string given to parse_date
MaxLocal == 3

-----------------------------------------------------------------------------
(* Program constants *)

\* parsed.entries[:20]
PerFeedCap == 20
\* items[:120]
MaxPool == 120
\* groups.get(...)[:20]
SectionCap == 20

FixedKeys == {"sri-lanka-motorsport", "sri-lanka-automotive",
              "global-motorsport", "global-automotive"}

\* what str.strip() removes
Whitespace == {9, 10, 11, 12, 13, 28, 29, 30, 31, 32}

-----------------------------------------------------------------------------
(* Text *)

\* dict.get(key, default) on a key that may be missing
Get(opt, default) == IF opt = <<>> THEN default ELSE opt[1]

\* str.strip(): surrounding whitespace removed
Strip(s) ==
    LET keep == {i \in DOMAIN s : s[i] \notin Whitespace}
    IN  IF keep = {} THEN <<>>
        ELSE LET lo == CHOOSE i \in keep : \A j \in keep : i <= j
                 hi == CHOOSE i \in keep : \A j \in keep : j <= i
             IN  SubSeq(s, lo, hi)

\* s[:n]
Take(s, n) == SubSeq(s, 1, IF Len(s) < n THEN Len(s) ELSE n)


-----------------------------------------------------------------------------
(* parse_date *)

\* parsedate_to_datetime(c) returns (it raises on a malformed string)
Parses(d) == d.kind = "ok"

\* dt.replace(tzinfo=utc) when dt.tzinfo is None, then dt.astimezone(utc):
\* the instant of local time d.local at offset d.tz, a missing offset being 0
ToUtc(d) == d.local - Get(d.tz, 0)

\* the `for c in candidates` loop, falling through to datetime.now
RECURSIVE TryCandidates(_, _)
TryCandidates(cs, clock) ==
    IF cs = <<>> THEN clock
    ELSE LET c == Head(cs)
         IN  IF c # <<>> /\ c[1].kind # "empty" /\ Parses(c[1])
             THEN ToUtc(c[1])
             ELSE TryCandidates(Tail(cs), clock)

\* mutant: the candidates in the other order
CandidatesUpdatedFirst(e) == <<e.updated, e.published>>

\* candidates = [entry.get("published"), entry.get("updated")]
Candidates(e) == <<e.published, e.updated>>

parse_date(e, clock) == TryCandidates(Candidates(e), clock)

-----------------------------------------------------------------------------
(* source_host *)

\* "www."
Www == <<119, 119, 119, 46>>

IsPrefixAt(s, i, p) ==
    /\ i + Len(p) - 1 <= Len(s)
    /\ SubSeq(s, i, i + Len(p) - 1) = p

\* str.replace(old, ""): every non-overlapping occurrence, scanning from the left
RECURSIVE RemoveAllFrom(_, _, _)
RemoveAllFrom(s, i, old) ==
    IF i > Len(s) THEN <<>>
    ELSE IF IsPrefixAt(s, i, old) THEN RemoveAllFrom(s, i + Len(old), old)
    ELSE <<s[i]>> \o RemoveAllFrom(s, i + 1, old)

RemoveAll(s, old) == RemoveAllFrom(s, 1, old)

\* urlparse(link).netloc.replace("www.", ""), "" when urlparse raises.
\* A link is given by what urlparse makes of it: whether it raises
\* (ValueError, as on an unbalanced "[" in the authority) and its netloc.
source_host(link) ==
    IF link.raises THEN <<>> ELSE RemoveAll(link.netloc, Www)

-----------------------------------------------------------------------------
(* collect_items *)

\* the dictionary appended to `items` (summary, source_host and published_utc
\* are left out: published_utc is the same instant as published_sort)
NewItem(title, link, feed, dt) ==
    [ title          |-> title,
      link           |-> link,
      category       |-> Get(feed.category, "news"),
      feed_name      |-> Get(feed.name, <<78, 101, 119, 115>>),
      published_sort |-> dt ]

\* mutant: only the link is required
CollectEntryAnyTitle(st, e, feed, clock) ==
    LET link  == Strip(Get(e.link, <<>>))
        title == Strip(Get(e.title, <<>>))
    IN  IF link = <<>> THEN st
        ELSE IF link \in st.seen THEN st
        ELSE [ items |-> Append(st.items,
                                NewItem(title, link, feed, parse_date(e, clock))),
               seen  |-> st.seen \cup {link} ]

\* mutant: the link is not looked up in seen_links
CollectEntryNoDedup(st, e, feed, clock) ==
    LET link  == Strip(Get(e.link, <<>>))
        title == Strip(Get(e.title, <<>>))
    IN  IF link = <<>> \/ title = <<>> THEN st
        ELSE [ items |-> Append(st.items,
                                NewItem(title, link, feed, parse_date(e, clock))),
               seen  |-> st.seen \cup {link} ]

\* one iteration of `for e in parsed.entries[:20]`
CollectEntry(st, e, feed, clock) ==
    LET link  == Strip(Get(e.link, <<>>))
        title == Strip(Get(e.title, <<>>))
    IN  IF link = <<>> \/ title = <<>> THEN st
        ELSE IF link \in st.seen THEN st
        ELSE [ items |-> Append(st.items,
                                NewItem(title, link, feed, parse_date(e, clock))),
               seen  |-> st.seen \cup {link} ]

\* The `for e in parsed.entries[:20]` loop over entries lo..hi, run as its
\* first half and then its second half.  The test on the state after the first
\* half is there to have TLC evaluate that half before it starts on the
\* second, which keeps the evaluation shallow; the state always has its two
\* fields.
RECURSIVE CollectEntries(_, _, _, _, _, _)
CollectEntries(es, lo, hi, st, feed, clock) ==
    IF lo > hi THEN st
    ELSE IF lo = hi THEN CollectEntry(st, es[lo], feed, clock)
    ELSE LET mid   == (lo + hi) \div 2
             first == CollectEntries(es, lo, mid, st, feed, clock)
         IN  IF DOMAIN first = {} THEN first
             ELSE CollectEntries(es, mid + 1, hi, first, feed, clock)

\* parsed.entries[:20]
Examined(entries) == Take(entries, PerFeedCap)

\* mutant: the sort without reverse=True
Older(a, b) == a.published_sort < b.published_sort

\* key=lambda x: x["published_sort"], reverse=True
Newer(a, b) == a.published_sort > b.published_sort

\* mutant: an ascending sort followed by list.reverse(), which turns ties around
SortedThenReversed(s) ==
    LET up == SortSeq(s, Older)
    IN  [i \in 1..Len(up) |-> up[Len(up) + 1 - i]]

\* items.sort(key=..., reverse=True): list.sort is stable, also with reverse
Sorted(s) == SortSeq(s, Newer)

\* mutant: the pool returned whole
NotTruncated(s) == s

\* items[:120]
Truncated(s) == Take(s, MaxPool)

-----------------------------------------------------------------------------
(* group_items, build_html *)

\* mutant: an item of a category that has no list yet is left out
GroupStepKnownOnly(groups, it) ==
    IF it.category \in DOMAIN groups
    THEN [groups EXCEPT ![it.category] = Append(@, it)]
    ELSE groups

\* groups.setdefault(item["category"], []).append(item)
GroupStep(groups, it) ==
    IF it.category \in DOMAIN groups
    THEN [groups EXCEPT ![it.category] = Append(@, it)]
    ELSE groups @@ (it.category :> <<it>>)

\* The `for item in items` loop over items lo..hi, run as its first half and
\* then its second half.  The test on the lists of the first half is there to
\* have TLC evaluate that half before it starts on the second, which keeps
\* the evaluation shallow; the four fixed keys are always among them.
RECURSIVE GroupLoop(_, _, _, _)
GroupLoop(its, lo, hi, groups) ==
    IF lo > hi THEN groups
    ELSE IF lo = hi THEN GroupStep(groups, its[lo])
    ELSE LET mid   == (lo + hi) \div 2
             first == GroupLoop(its, lo, mid, groups)
         IN  IF DOMAIN first = {} THEN first
             ELSE GroupLoop(its, mid + 1, hi, first)

\* the four empty lists, then the loop
group_items(its) == GroupLoop(its, 1, Len(its), [k \in FixedKeys |-> <<>>])

\* groups.get(key, [])[:20], the cards of one section
Section(groups, key) ==
    Take(IF key \in DOMAIN groups THEN groups[key] ELSE <<>>, SectionCap)

\* the four sections of the page, each the list of items rendered as cards
build_html(its) ==
    LET groups == group_items(its)
    IN  [k \in FixedKeys |-> Section(groups, k)]


-----------------------------------------------------------------------------
(* Inputs: date strings, entries, feed descriptors, configurations *)

NoDate == <<>>
EmptyDate == <<[kind |-> "empty", local |-> 0, tz |-> <<>>]>>
BadDate == <<[kind |-> "bad", local |-> 0, tz |-> <<>>]>>
\* a well-formed date string: local time and, when given, its UTC offset
OkDate(local, tz) == <<[kind |-> "ok", local |-> local, tz |-> tz]>>

Entry(link, title, published, updated) ==
    [link |-> link, title |-> title, published |-> published, updated |-> updated]

\* "a", " a ", "b", " " and "t", " u", " " as character codes
SampleEntries ==
    { Entry(<< <<97>> >>,         << <<116>> >>,     OkDate(2, <<>>),  NoDate),
      Entry(<< <<32, 97, 32>> >>, << <<32, 117>> >>, OkDate(4, <<1>>), NoDate),
      Entry(<< <<98>> >>,         << <<116>> >>,     BadDate,          OkDate(2, <<0>>)),
      Entry(<< <<98>> >>,         << <<117>> >>,     EmptyDate,        NoDate),
      Entry(<< <<97>> >>,         << <<32>> >>,      OkDate(3, <<>>),  NoDate),
      Entry(<< <<32>> >>,         << <<116>> >>,     OkDate(3, <<>>),  NoDate),
      Entry(<< <<98>> >>,         <<>>,              OkDate(1, <<>>),  NoDate),
      Entry(<<>>,                 << <<116>> >>,     NoDate,           NoDate) }

\* the sequences of n sample entries
RECURSIVE Docs(_)
Docs(n) ==
    IF n = 0 THEN { <<>> }
    ELSE { <<e>> \o d : e \in SampleEntries, d \in Docs(n - 1) }

\* A feed descriptor of feeds.json, with the document behind its url:
\* `doc` is the entries feedparser.parse(feed["url"]) returns.
Feed(category, doc) == [name |-> <<>>, category |-> category, doc |-> doc]

ShortCategories == { <<>>, <<"global-motorsport">> }

\* the documents of at most n sample entries
DocsUpTo(n) == UNION { Docs(k) : k \in 0..n }

\* no feed, one short feed, or two, holding at most ne entries in total
ShortConfigs(ne) ==
    { <<>> } \cup
    { <<Feed(c, d)>> : c \in ShortCategories, d \in DocsUpTo(ne) } \cup
    UNION { { <<Feed(c1, d1), Feed(c2, d2)>> :
                c1 \in ShortCategories, c2 \in ShortCategories,
                d1 \in Docs(k), d2 \in DocsUpTo(ne - k) } : k \in 0..ne }

BulkCategories == << <<"sri-lanka-motorsport">>, <<"misc">>, <<"global-automotive">> >>

\* Entry i of full-length feed f.  Every such feed opens with the same
\* headline link "a"; its entry past the cap repeats the link of entry 2 of
\* the feed after it; the other links are its own.
BulkEntry(f, i) ==
    Entry(<< IF i = 1 THEN <<97>>
             ELSE IF i > PerFeedCap THEN <<65 + f, 50>>
             ELSE <<64 + f, 48 + i>> >>,
          << <<116, 64 + f>> >>,
          OkDate(1 + ((f + i) % 3), <<>>),
          NoDate)

\* a feed of one entry more than the cap
BulkFeed(f) ==
    Feed(BulkCategories[1 + ((f - 1) % 3)],
         [i \in 1..(PerFeedCap + 1) |-> BulkEntry(f, i)])

BulkConfig(k) == [f \in 1..k |-> BulkFeed(f)]

\* full-length feeds alone, or with one short feed of one entry before or after
BulkConfigs ==
    UNION { { BulkConfig(k) } \cup
            { <<s>> \o BulkConfig(k) : s \in { Feed(c, d) : c \in ShortCategories, d \in Docs(1) } } \cup
            { BulkConfig(k) \o <<s>> : s \in { Feed(c, d) : c \in ShortCategories, d \in Docs(1) } }
            : k \in 1..MaxBulk }

\* descriptors get distinct names by position; the first one carries none
Named(cfg) ==
    [p \in 1..Len(cfg) |->
        [cfg[p] EXCEPT !.name = IF p = 1 THEN <<>> ELSE << <<64 + p>> >>]]

Configs == { Named(c) : c \in ShortConfigs(MaxEntries) \cup BulkConfigs }

-----------------------------------------------------------------------------
(* The run of main *)

NoFile == [status |-> "old", body |-> <<>>]

Init ==
    /\ pc = "ensure_dirs"
    /\ feedsFile \in { <<>> } \cup { <<c>> : c \in Configs }
    /\ feeds = <<>>
    /\ fi = 1
    /\ items = <<>>
    /\ seen_links = {}
    /\ examined = <<>>
    /\ pool = <<>>
    /\ indexHtml = NoFile
    /\ newsJson = NoFile
    /\ now = StartTime
    /\ failure = ""
    /\ dIn = <<>> /\ dOut = <<>>
    /\ hIn = <<>> /\ hOut = <<>>

\* an exception leaves main: the run ends reporting failure
Raise(why) ==
    /\ pc' = "failed"
    /\ failure' = why

\* os.makedirs(PUBLIC_DIR, exist_ok=True)
EnsureDirs ==
    /\ pc = "ensure_dirs"
    /\ pc' = "load_feeds"
    /\ UNCHANGED <<feedsFile, feeds, fi, items, seen_links, examined, pool,
                   indexHtml, newsJson, now, failure, dIn, dOut, hIn, hOut>>

\* os.makedirs raises OSError
EnsureDirsFails ==
    /\ pc = "ensure_dirs"
    /\ Raise("mkdir")
    /\ UNCHANGED <<feedsFile, feeds, fi, items, seen_links, examined, pool,
                   indexHtml, newsJson, now, dIn, dOut, hIn, hOut>>

\* feeds = load_feeds()
LoadFeeds ==
    /\ pc = "load_feeds"
    /\ feedsFile # <<>>
    /\ feeds' = feedsFile[1]
    /\ pc' = "collect"
    /\ UNCHANGED <<feedsFile, fi, items, seen_links, examined, pool,
                   indexHtml, newsJson, now, failure, dIn, dOut, hIn, hOut>>

\* open or json.load raises: feeds.json is missing or malformed
LoadFeedsFails ==
    /\ pc = "load_feeds"
    /\ feedsFile = <<>>
    /\ Raise("config")
    /\ UNCHANGED <<feedsFile, feeds, fi, items, seen_links, examined, pool,
                   indexHtml, newsJson, now, dIn, dOut, hIn, hOut>>

\* One iteration of `for feed in feeds`: feedparser.parse returns, and the
\* inner loop runs over the first entries of what it returned.  The clock
\* moves on while the feed is fetched.
CollectFeed ==
    /\ pc = "collect"
    /\ fi <= Len(feeds)
    /\ LET feed == feeds[fi]
           es   == Examined(feed.doc)
           st   == CollectEntries(es, 1, Len(es),
                                  [items |-> items, seen |-> seen_links],
                                  feed, now)
       IN  /\ items' = st.items
           /\ seen_links' = st.seen
           /\ examined' = Append(examined, es)
    /\ fi' = fi + 1
    /\ now' = now + 1
    /\ UNCHANGED <<pc, feedsFile, feeds, pool, indexHtml, newsJson, failure,
                   dIn, dOut, hIn, hOut>>

\* feedparser.parse raises (a connection reset while the body is read, a
\* timeout): nothing in collect_items or main catches it
CollectFeedRaises ==
    /\ pc = "collect"
    /\ fi <= Len(feeds)
    /\ Raise("fetch")
    /\ UNCHANGED <<feedsFile, feeds, fi, items, seen_links, examined, pool,
                   indexHtml, newsJson, now, dIn, dOut, hIn, hOut>>

\* items.sort(...); return items[:120]
CollectReturn ==
    /\ pc = "collect"
    /\ fi > Len(feeds)
    /\ pool' = Truncated(Sorted(items))
    /\ pc' = "write_html"
    /\ UNCHANGED <<feedsFile, feeds, fi, items, seen_links, examined,
                   indexHtml, newsJson, now, failure, dIn, dOut, hIn, hOut>>

\* with open(index.html, "w") as f: f.write(build_html(items))
WriteHtml ==
    /\ pc = "write_html"
    /\ indexHtml' = [status |-> "written", body |-> <<build_html(pool)>>]
    /\ pc' = "write_json"
    /\ UNCHANGED <<feedsFile, feeds, fi, items, seen_links, examined, pool,
                   newsJson, now, failure, dIn, dOut, hIn, hOut>>

\* open raises (the file is left as it was) or write raises (it is left cut)
WriteHtmlFails ==
    /\ pc = "write_html"
    /\ \E left \in {"old", "partial"} : indexHtml' = [indexHtml EXCEPT !.status = left]
    /\ Raise("write")
    /\ UNCHANGED <<feedsFile, feeds, fi, items, seen_links, examined, pool,
                   newsJson, now, dIn, dOut, hIn, hOut>>

\* with open(news.json, "w") as f: json.dump(items, f, ...)
WriteJson ==
    /\ pc = "write_json"
    /\ newsJson' = [status |-> "written", body |-> <<pool>>]
    /\ pc' = "done"
    /\ UNCHANGED <<feedsFile, feeds, fi, items, seen_links, examined, pool,
                   indexHtml, now, failure, dIn, dOut, hIn, hOut>>

WriteJsonFails ==
    /\ pc = "write_json"
    /\ \E left \in {"old", "partial"} : newsJson' = [newsJson EXCEPT !.status = left]
    /\ Raise("write")
    /\ UNCHANGED <<feedsFile, feeds, fi, items, seen_links, examined, pool,
                   indexHtml, now, dIn, dOut, hIn, hOut>>

Next ==
    \/ EnsureDirs
    \/ EnsureDirsFails
    \/ LoadFeeds
    \/ LoadFeedsFails
    \/ CollectFeed
    \/ CollectFeedRaises
    \/ CollectReturn
    \/ WriteHtml
    \/ WriteHtmlFails
    \/ WriteJson
    \/ WriteJsonFails

Spec == Init /\ [][Next]_vars


-----------------------------------------------------------------------------
(* parse_date on bounded inputs *)

DateFields ==
    { NoDate, EmptyDate, BadDate } \cup
    { OkDate(l, tz) : l \in 0..MaxLocal, tz \in { <<>>, <<0>>, <<1>>, <<-1>> } }

Idle ==
    /\ pc = "idle"
    /\ feedsFile = <<>> /\ feeds = <<>> /\ fi = 1
    /\ items = <<>> /\ seen_links = {} /\ examined = <<>> /\ pool = <<>>
    /\ indexHtml = NoFile /\ newsJson = NoFile
    /\ now = StartTime /\ failure = ""

InitDate ==
    /\ Idle
    /\ dIn \in { << [entry |-> Entry(<<>>, <<>>, p, u), clock |-> c] >> :
                   p \in DateFields, u \in DateFields,
                   c \in StartTime..(StartTime + 1) }
    /\ dOut = <<>>
    /\ hIn = <<>> /\ hOut = <<>>

\* dt = parse_date(e)
ParseDate ==
    /\ dIn # <<>>
    /\ dOut = <<>>
    /\ dOut' = << parse_date(dIn[1].entry, dIn[1].clock) >>
    /\ UNCHANGED <<runVars, dIn, hIn, hOut>>

SpecDate == InitDate /\ [][ParseDate]_vars

-----------------------------------------------------------------------------
(* source_host on bounded inputs *)

\* the texts of at most n characters among "w", "." and "a"
RECURSIVE Texts(_)
Texts(n) ==
    IF n = 0 THEN { <<>> }
    ELSE LET shorter == Texts(n - 1)
         IN  shorter \cup { Append(t, c) : t \in shorter, c \in {119, 46, 97} }

InitHost ==
    /\ Idle
    /\ hIn \in { << [raises |-> TRUE, netloc |-> <<>>] >> } \cup
               { << [raises |-> FALSE, netloc |-> t] >> : t \in Texts(MaxHostLen) }
    /\ hOut = <<>>
    /\ dIn = <<>> /\ dOut = <<>>

\* "source_host": source_host(link)
SourceHost ==
    /\ hIn # <<>>
    /\ hOut = <<>>
    /\ hOut' = << source_host(hIn[1]) >>
    /\ UNCHANGED <<runVars, dIn, dOut, hIn>>

SpecHost == InitHost /\ [][SourceHost]_vars


-----------------------------------------------------------------------------
(* Vocabulary of the claims *)

\* collect_items has returned its pool to main
Returned ==
    \/ pc \in {"write_html", "write_json", "done"}
    \/ pc = "failed" /\ failure = "write"

\* the items of a list, as a set
Range(s) == { s[i] : i \in DOMAIN s }

\* the items collected that the pool does not hold
Dropped == Range(items) \ Range(pool)

\* where an item stood in collection order (links are unique in `items`)
CollectedAt(it) == CHOOSE i \in DOMAIN items : items[i].link = it.link

\* a comes before b in the stable descending order of the collected items
Before(a, b) ==
    \/ a.published_sort > b.published_sort
    \/ a.published_sort = b.published_sort /\ CollectedAt(a) < CollectedAt(b)

-----------------------------------------------------------------------------
(* C2: caps *)

\* C2: the pool returned by collect_items has at most 120 items; for every
\* feed, what the collection loop ran on is at most 20 entries and is the start
\* of what the feed returned, in its order; every section of the page written
\* holds at most 20 cards.
C2_Caps ==
    /\ Len(pool) <= 120
    /\ \A f \in DOMAIN examined :
          /\ Len(examined[f]) <= 20
          /\ Len(examined[f]) <= Len(feeds[f].doc)
          /\ \A i \in DOMAIN examined[f] : examined[f][i] = feeds[f].doc[i]
    /\ indexHtml.status = "written" =>
          \A k \in FixedKeys : Len(indexHtml.body[1][k]) <= 20

\* C2 witness: a run that collected more than 120 items from feeds of more than
\* 20 entries and wrote a page with a full section
C2_Witness ==
    /\ pc = "done"
    /\ Len(items) > 120
    /\ \E f \in DOMAIN feeds : Len(feeds[f].doc) > 20
    /\ \E k \in FixedKeys :
          /\ Len(indexHtml.body[1][k]) = 20
          /\ Len(group_items(pool)[k]) > 20

-----------------------------------------------------------------------------
(* C3: order *)

\* C3: in the pool returned by collect_items every item is at least as recent
\* as the one after it, and no collected item that the truncation dropped is
\* more recent than an item of the pool.
C3_Sorted ==
    Returned =>
        /\ \A i \in 1..(Len(pool) - 1) :
              pool[i].published_sort >= pool[i + 1].published_sort
        /\ \A d \in Dropped : \A i \in DOMAIN pool :
              pool[i].published_sort >= d.published_sort

\* C3 witness: a pool cut to 120 that holds items of different instants, out of
\* a collection that was not in order
C3_Witness ==
    /\ Returned
    /\ Len(items) > 120
    /\ pool[1].published_sort > pool[Len(pool)].published_sort
    /\ \E i \in 1..(Len(items) - 1) :
          items[i].published_sort < items[i + 1].published_sort

-----------------------------------------------------------------------------
(* C8: stability *)

\* C8: the pool is the first 120 items of the stable descending sort of the
\* collected items: each item of the pool comes before the one after it, by
\* instant and then by collection order, and before every dropped item; and
\* nothing is dropped unless the pool holds 120 items.
C8_Stable ==
    Returned =>
        /\ Range(pool) \subseteq Range(items)
        /\ Len(pool) = (IF Len(items) < 120 THEN Len(items) ELSE 120)
        /\ \A i \in 1..(Len(pool) - 1) : Before(pool[i], pool[i + 1])
        /\ \A d \in Dropped : Before(pool[Len(pool)], d)

\* C8 witness: two items of the same instant from different feeds, adjacent in
\* the pool, with an item of another instant collected between them
C8_Witness ==
    /\ pc = "write_html"
    /\ \E i \in 1..(Len(pool) - 1) :
          /\ pool[i].published_sort = pool[i + 1].published_sort
          /\ pool[i].feed_name # pool[i + 1].feed_name
          /\ CollectedAt(pool[i]) + 1 < CollectedAt(pool[i + 1])


-----------------------------------------------------------------------------
(* C5: grouping *)

\* C5: group_items puts every item of the pool in the group keyed by its own
\* category and in no other, each group listing its items in pool order; an
\* item whose category is not one of the four fixed keys is in none of the
\* sections of the page written, and news.json as written holds the whole pool.
C5_Groups ==
    Returned =>
        LET groups == group_items(pool)
        IN  /\ DOMAIN groups = FixedKeys \cup { pool[i].category : i \in DOMAIN pool }
            /\ \A k \in DOMAIN groups :
                  groups[k] = SelectSeq(pool, LAMBDA it : it.category = k)
            /\ indexHtml.status = "written" =>
                  \A i \in DOMAIN pool : \A k \in FixedKeys :
                      pool[i].category \notin FixedKeys =>
                          pool[i] \notin Range(indexHtml.body[1][k])
            /\ newsJson.status = "written" => newsJson.body[1] = pool

\* C5 witness: a finished run whose pool holds an item of the default category
\* "news", an item of another category outside the four, and items of a fixed one
C5_Witness ==
    /\ pc = "done"
    /\ \E i, j, k \in DOMAIN pool :
          /\ pool[i].category = "news"
          /\ pool[j].category = "misc"
          /\ pool[k].category \in FixedKeys
          /\ pool[k] \in Range(indexHtml.body[1][pool[k].category])
          /\ pool[i] \in Range(newsJson.body[1])

-----------------------------------------------------------------------------
(* C6: rejected entries *)

\* the entry carries a link and a title that are not empty once trimmed
Usable(e) ==
    /\ e.link # <<>> /\ Strip(e.link[1]) # <<>>
    /\ e.title # <<>> /\ Strip(e.title[1]) # <<>>

\* the trimmed link and title of every usable entry the feeds hold
UsablePairs ==
    { [link |-> Strip(e.link[1]), title |-> Strip(e.title[1])] :
        e \in { x \in UNION { Range(feeds[f].doc) : f \in DOMAIN feeds } : Usable(x) } }

\* C6: every item collected, and so every item of the pool, has a link and a
\* title that are trimmed and not empty, and they are those of an entry that
\* carries both; an entry without one of them stops nothing: every usable entry
\* the loop ran on has its link among the collected items.
C6_Rejected ==
    LET usable == UsablePairs
        links  == { items[i].link : i \in DOMAIN items }
    IN  /\ \A it \in Range(items) \cup Range(pool) :
              /\ it.link # <<>> /\ Strip(it.link) = it.link
              /\ it.title # <<>> /\ Strip(it.title) = it.title
              /\ [link |-> it.link, title |-> it.title] \in usable
        /\ \A f \in DOMAIN examined : \A e \in Range(examined[f]) :
              Usable(e) => Strip(e.link[1]) \in links

\* C6 witness: a finished run over a feed whose first entry lacks a usable
\* link or title and whose second entry made it to the pool
C6_Witness ==
    /\ pc = "done"
    /\ \E f \in DOMAIN feeds :
          /\ Len(feeds[f].doc) = 2
          /\ ~Usable(feeds[f].doc[1])
          /\ Usable(feeds[f].doc[2])
          /\ \E i \in DOMAIN pool :
                /\ pool[i].link = Strip(feeds[f].doc[2].link[1])
                /\ pool[i].feed_name = Get(feeds[f].name, <<78, 101, 119, 115>>)

-----------------------------------------------------------------------------
(* C1: links are unique *)

\* the places <<feed, entry>> of the entries the feeds returned
Places == UNION { { <<f, i>> : i \in DOMAIN feeds[f].doc } : f \in DOMAIN feeds }

EntryAt(p) == feeds[p[1]].doc[p[2]]

\* p comes before q in configuration order, then in feed order
Earlier(p, q) == p[1] < q[1] \/ (p[1] = q[1] /\ p[2] < q[2])

\* the items of the pool that carry link l
Holding(l) == { i \in DOMAIN pool : pool[i].link = l }

\* C1 as stated, read over the entries that carry a link and a title: whenever
\* two of them carry the same link, the pool returned holds exactly one item
\* with that link, and it is the item of the first feed, in configuration
\* order, that carries the link.
C1_AsStated ==
    Returned =>
        \A p \in Places : \A q \in Places :
            ( /\ p # q
              /\ Usable(EntryAt(p)) /\ Usable(EntryAt(q))
              /\ EntryAt(p).link = EntryAt(q).link )
            => LET l     == Strip(EntryAt(p).link[1])
                   same(e) == Usable(e) /\ e.link = EntryAt(p).link
                   first == CHOOSE f \in DOMAIN feeds :
                              /\ \E e \in Range(feeds[f].doc) : same(e)
                              /\ \A g \in 1..(f - 1) :
                                    \A e \in Range(feeds[g].doc) : ~same(e)
               IN  /\ Cardinality(Holding(l)) = 1
                   /\ \A i \in Holding(l) :
                         /\ pool[i].feed_name = Get(feeds[first].name, <<78, 101, 119, 115>>)
                         /\ pool[i].category = Get(feeds[first].category, "news")

\* C1 amended: no two items of the pool returned share a link; an item of the
\* pool is the one built from the first entry, in configuration order and then
\* feed order, that carries its link (trimmed) among the usable entries within
\* the first 20 of their feed; and every link such an entry carries has its item
\* in the pool unless more than 120 links were collected.
C1_Unique ==
    Returned =>
        LET usable == { p \in Places : p[2] <= 20 /\ Usable(EntryAt(p)) }
            linkAt == [p \in usable |-> Strip(EntryAt(p).link[1])]
            links  == { linkAt[p] : p \in usable }
            FirstOf(l) ==
                LET at == { p \in usable : linkAt[p] = l }
                IN  CHOOSE p \in at : \A q \in at : ~Earlier(q, p)
        IN  /\ Cardinality({ pool[i].link : i \in DOMAIN pool }) = Len(pool)
            /\ \A i \in DOMAIN pool :
                  /\ pool[i].link \in links
                  /\ LET p == FirstOf(pool[i].link)
                     IN  /\ pool[i].title = Strip(EntryAt(p).title[1])
                         /\ pool[i].feed_name = Get(feeds[p[1]].name, <<78, 101, 119, 115>>)
                         /\ pool[i].category = Get(feeds[p[1]].category, "news")
            /\ Cardinality(links) <= 120 => links = { pool[i].link : i \in DOMAIN pool }
            /\ Cardinality(links) > 120 => Len(pool) = 120

\* C1 witness: a finished run over two feeds that carry the same link under
\* different titles, the pool holding the item of the earlier feed
C1_Witness ==
    /\ pc = "done"
    /\ \E p \in Places : \E q \in Places :
          /\ p[1] < q[1]
          /\ Usable(EntryAt(p)) /\ Usable(EntryAt(q))
          /\ Strip(EntryAt(p).link[1]) = Strip(EntryAt(q).link[1])
          /\ Strip(EntryAt(p).title[1]) # Strip(EntryAt(q).title[1])
          /\ \E i \in DOMAIN pool :
                /\ pool[i].link = Strip(EntryAt(p).link[1])
                /\ pool[i].title = Strip(EntryAt(p).title[1])
                /\ pool[i].feed_name = Get(feeds[p[1]].name, <<78, 101, 119, 115>>)


-----------------------------------------------------------------------------
(* C10: parse_date *)

\* the date string is there, is not empty, and parses
Valid(c) == c # <<>> /\ c[1].kind = "ok"

\* its instant in UTC: the local time less the offset, no offset meaning UTC
InstantOf(c) == IF c[1].tz = <<>> THEN c[1].local ELSE c[1].local - c[1].tz[1]

\* C10: parse_date returns the UTC instant of `published` when that parses,
\* else the UTC instant of `updated` when that parses, else the clock; a
\* missing, empty or malformed candidate is passed over.
C10_ParseDate ==
    dOut # <<>> =>
        LET e == dIn[1].entry
        IN  dOut[1] = IF Valid(e.published) THEN InstantOf(e.published)
                      ELSE IF Valid(e.updated) THEN InstantOf(e.updated)
                      ELSE dIn[1].clock

\* C10 witness: `published` is malformed, `updated` carries an offset, and the
\* result is the instant of `updated`, which is neither its local time nor the clock
C10_Witness ==
    /\ dOut # <<>>
    /\ dIn[1].entry.published = BadDate
    /\ Valid(dIn[1].entry.updated)
    /\ dOut[1] = InstantOf(dIn[1].entry.updated)
    /\ dOut[1] # dIn[1].entry.updated[1].local
    /\ dOut[1] # dIn[1].clock

-----------------------------------------------------------------------------
(* C9: source_host *)

\* the text without "www." at its start, when it starts with it
WithoutLeadingWww(t) ==
    IF Len(t) >= 4 /\ SubSeq(t, 1, 4) = <<119, 119, 119, 46>>
    THEN SubSeq(t, 5, Len(t))
    ELSE t

\* C9 as stated: source_host returns the authority of the link with only a
\* leading "www." removed, and the empty text when the link does not parse.
C9_AsStated ==
    hOut # <<>> =>
        hOut[1] = IF hIn[1].raises THEN <<>> ELSE WithoutLeadingWww(hIn[1].netloc)

-----------------------------------------------------------------------------
(* C4: a feed that fails *)

\* what `items` held is still its start
Kept(before, after) ==
    /\ Len(before) <= Len(after)
    /\ SubSeq(after, 1, Len(before)) = before

\* C4 as stated: whatever happens to the fetch of the feed the loop is at, the
\* run goes on to the next feed with the items collected so far kept.
C4_AsStated ==
    [][ (pc = "collect" /\ fi <= Len(feeds))
            => (pc' = "collect" /\ fi' = fi + 1 /\ Kept(items, items')) ]_vars

-----------------------------------------------------------------------------
(* C7: how a run ends *)

\* C7 as stated: a run that ends without failure has written both files from
\* the same pool, and a run ends in failure only when the configuration could
\* not be loaded or the output could not be written.
C7_AsStated ==
    /\ pc = "done" =>
          /\ indexHtml = [status |-> "written", body |-> <<build_html(pool)>>]
          /\ newsJson = [status |-> "written", body |-> <<pool>>]
    /\ pc = "failed" => failure \in {"config", "mkdir", "write"}

=============================================================================
